---- MODULE Spec2Model ----
(***************************************************************************)
(* Model of src/main.py: migration of planets (primary collection) and     *)
(* characters (dependent collection) from a paginated source into an Odoo  *)
(* store through search_read / create.                                     *)
(*                                                                         *)
(* Python values are encoded as follows.                                   *)
(*   dict      : [keys |-> sequence of keys in insertion order,            *)
(*                val  |-> function from the keys to the values]           *)
(*   entity    : a function from field names to values (a TLA+ record)     *)
(*   name      : a TLA+ string                                             *)
(*   bytes/str of an image : a sequence of numbers, "" is << >>            *)
(*   planet "" : Blank                                                     *)
(***************************************************************************)
EXTENDS Integers, Sequences, FiniteSets, TLC

VARIABLES
    \* ---- reconcile + upload of one collection, run after run (SpecRecon)
    rpc,          \* where the runs are: "check", "upload", "done"
    run,          \* number of the current run, from 1
    cands,        \* the candidate set every run starts from
    entity_dict,  \* check_entity_in_odoo's entity_dict (the create set)
    ids_entity_dict, \* the id map of the current run
    store,        \* the records of the target model, in search_read order
    result,       \* what the last search_read returned
    created,      \* per run, the create call: submitted keys, values, returned ids
    \* ---- one function applied to drawn inputs (SpecPure)
    op,           \* the function applied, "none" before
    arg_entities, \* its first argument
    arg_map,      \* its second argument
    out,          \* its latest result
    prev,         \* the result of the application before the latest
    times,        \* how many times it was applied
    \* ---- one request_all batch (SpecFetch, and the fetch phases of SpecRun)
    fstate,       \* "off", "running" (inside gather) or "returned"
    furls,        \* request_all's urls
    fphoto,       \* request_all's photo flag
    fbroken,      \* positions of the urls the server never answers well
    ftask,        \* per url, where its coroutine is: "new", "sent", "done"
    fres,         \* <<position, payload>> of the finished coroutines, as they finish
    flog,         \* the urls of the "Data acquisition error" log lines, in order
    json_list,    \* what request_all returned
    \* ---- the main program (SpecRun)
    pc,           \* the statement of __main__ that runs next, "off" outside a run
    urls_to_request, \* __main__'s urls_to_request
    planet_dict,  \* __main__'s planet_dict
    ids_planets_dict, \* __main__'s ids_planets_dict
    characters_dict, \* __main__'s characters_dict / changed_ / new_characters_dict
    image_dict,   \* __main__'s image_dict
    ids_character_dict, \* __main__'s ids_character_dict
    odoo,         \* the target store: per model, its records in search_read order
    hist,         \* the statements of __main__ executed so far, in order
    norm,         \* per collection, the dict its normalizer returned
    queried,      \* per model, what search_read returned
    submitted,    \* per model, the create call: keys, values, returned ids
    events,       \* the calls __main__ made to the source and the store, and their ends
    exit_status   \* the exit status of the process, NotExited while it runs

reconVars == <<rpc, run, cands, entity_dict, ids_entity_dict, store, result, created>>
pureVars == <<op, arg_entities, arg_map, out, prev, times>>
fetchVars == <<fstate, furls, fphoto, fbroken, ftask, fres, flog, json_list>>
mainVars == <<pc, urls_to_request, planet_dict, ids_planets_dict, characters_dict,
              image_dict, ids_character_dict, odoo, hist, norm, queried, submitted,
              events, exit_status>>
vars == <<reconVars, pureVars, fetchVars, mainVars>>

----------------------------------------------------------------------------
(* Bounds of the model *)
MaxCand == 2      \* candidates of a collection
MaxStore == 2     \* records in the store before the first run
MaxChar == 2      \* characters given to a function of class Characters
MaxImg == 2       \* entries of an image map given to upgrage_characters_photo
MaxTarget == 2    \* largest target id of an id map given to upgrade_characters_info
MaxUrls == 3      \* urls of one request_all batch
MaxFails == 2     \* failed attempts that are logged, in a batch on its own
MaxRunFails == 1  \* failed attempts that are logged, in a batch of a full run
MaxCount == 21    \* largest item count the metadata request reports
MaxPlanetItems == 2    \* planet records in the pages given to generate_planet_info
MaxCharacterItems == 3 \* character records in the pages given to get_characters_info
MaxPayloads == 3  \* payloads given to upgrade_photo

(* planet_id = "" at main.py:190, and the default of dict.get(..., "") *)
Blank == -1

(* the process has not ended *)
NotExited == -1

(* None, the result of image_dict.get(characters_id) for a missing key; as *)
(* the value of the image field it is told apart from every str            *)
PyNone == <<-1>>

Names == {"", "a", "b"}

----------------------------------------------------------------------------
(* Python dict: insertion-ordered keys *)
EmptyDict == [keys |-> << >>, val |-> << >>]

SeqToSet(s) == {s[i] : i \in 1..Len(s)}

DictHas(d, k) == k \in SeqToSet(d.keys)

\* d.get(k, default)
DictGet(d, k, default) == IF DictHas(d, k) THEN d.val[k] ELSE default

\* d.update({k: v}): a new key goes last, an old key keeps its place
DictUpdate(d, k, v) ==
    IF DictHas(d, k)
    THEN [keys |-> d.keys, val |-> [x \in DOMAIN d.val |-> IF x = k THEN v ELSE d.val[x]]]
    ELSE [keys |-> Append(d.keys, k),
          val |-> [x \in SeqToSet(d.keys) \cup {k} |-> IF x = k THEN v ELSE d.val[x]]]

\* del d[k]
DictDel(d, k) ==
    [keys |-> SelectSeq(d.keys, LAMBDA x : x # k),
     val |-> [x \in SeqToSet(d.keys) \ {k} |-> d.val[x]]]

\* list(d.values())
DictValues(d) == [i \in 1..Len(d.keys) |-> d.val[d.keys[i]]]

\* d.update(dict(zip(ks, vs))): zip stops at the shorter of the two
RECURSIVE DictUpdateZip(_, _, _)
DictUpdateZip(d, ks, vs) ==
    IF ks = << >> \/ vs = << >> THEN d
    ELSE DictUpdateZip(DictUpdate(d, Head(ks), Head(vs)), Tail(ks), Tail(vs))

\* entity.get(field, default) on a record
Field(e, f, default) == IF f \in DOMAIN e THEN e[f] ELSE default

----------------------------------------------------------------------------
(* The target store, one model: a sequence of [id, vals] in query order *)

\* search_read(model, [["name", "!=", ""]], fields=["name"])
search_read(recs) ==
    LET kept == SelectSeq(recs, LAMBDA r : Field(r.vals, "name", "") # "")
    IN  [i \in 1..Len(kept) |-> [id |-> kept[i].id, name |-> kept[i].vals.name]]

MaxId(recs) ==
    IF recs = << >> THEN 0
    ELSE CHOOSE m \in {recs[i].id : i \in 1..Len(recs)} :
            \A i \in 1..Len(recs) : recs[i].id <= m

\* the ids create(model, [vals_list]) returns: one fresh id per record, in order
create_ids(recs, vals_list) == [i \in 1..Len(vals_list) |-> MaxId(recs) + i]

\* a create that puts the new records in the place of the old ones
create_truncating(recs, vals_list) ==
    [i \in 1..Len(vals_list) |->
        [id |-> create_ids(recs, vals_list)[i], vals |-> vals_list[i]]]

\* the store after create(model, [vals_list])
create(recs, vals_list) ==
    recs \o [i \in 1..Len(vals_list) |->
                [id |-> create_ids(recs, vals_list)[i], vals |-> vals_list[i]]]

----------------------------------------------------------------------------
(* Odoo.check_entity_in_odoo *)

\* new_dict: for dict in result: new_dict.update({dict["id"]: dict["name"]})
RECURSIVE new_dict(_)
new_dict(res) ==
    IF res = << >> THEN EmptyDict
    ELSE LET n == Len(res)
         IN  DictUpdate(new_dict(SubSeq(res, 1, n - 1)), res[n].id, res[n].name)

\* a search that returns the last position of the name, not the first
index_last(names, name) ==
    IF \E i \in 1..Len(names) : names[i] = name
    THEN CHOOSE i \in 1..Len(names) :
            names[i] = name /\ \A j \in (i + 1)..Len(names) : names[j] # name
    ELSE 0

\* entity_in_odoo_names.index(name): the first position, 0 for ValueError
index(names, name) ==
    IF \E i \in 1..Len(names) : names[i] = name
    THEN CHOOSE i \in 1..Len(names) :
            names[i] = name /\ \A j \in 1..(i - 1) : names[j] # name
    ELSE 0

\* the loop over entity_dict.items(): del_list and ids_entity_dict
RECURSIVE match_loop(_, _, _, _)
match_loop(keys, entities, odoo_keys, odoo_names) ==
    IF keys = << >> THEN [del_list |-> << >>, ids |-> EmptyDict]
    ELSE LET n == Len(keys)
             before == match_loop(SubSeq(keys, 1, n - 1), entities, odoo_keys, odoo_names)
             id_entity == keys[n]
             ix == index(odoo_names, Field(entities.val[id_entity], "name", ""))
         IN  IF ix = 0 THEN before
             ELSE [del_list |-> Append(before.del_list, id_entity),
                   ids |-> DictUpdate(before.ids, id_entity, odoo_keys[ix])]

RECURSIVE del_all(_, _)
del_all(d, del_list) ==
    IF del_list = << >> THEN d
    ELSE del_all(DictDel(d, Head(del_list)), Tail(del_list))

\* a check that also takes out of the create set every candidate whose name
\* an earlier candidate has
check_entity_in_odoo_unique_names(res, entities) ==
    LET nd == new_dict(res)
        m == match_loop(entities.keys, entities, nd.keys, DictValues(nd))
        repeated == SelectSeq(entities.keys,
                       LAMBDA k : \E i, j \in 1..Len(entities.keys) :
                                     /\ i < j
                                     /\ entities.keys[j] = k
                                     /\ entities.val[entities.keys[i]].name
                                           = entities.val[k].name)
    IN  [entity_dict |-> del_all(del_all(entities, m.del_list), repeated),
         ids_entity_dict |-> m.ids]

check_entity_in_odoo(res, entities) ==
    LET nd == new_dict(res)
        entity_in_odoo_keys == nd.keys
        entity_in_odoo_names == DictValues(nd)
        m == match_loop(entities.keys, entities, entity_in_odoo_keys, entity_in_odoo_names)
    IN  [entity_dict |-> del_all(entities, m.del_list), ids_entity_dict |-> m.ids]

\* the returned ids paired with the submitted keys in the opposite order
upload_reversed(entities, ids, entity_odoo_id) ==
    DictUpdateZip(ids, [i \in 1..Len(entities.keys) |->
                           entities.keys[Len(entities.keys) + 1 - i]], entity_odoo_id)

(* Odoo.upload_entity_info_into_oddo: the id map after the create call *)
upload_entity_info_into_oddo(entities, ids, entity_odoo_id) ==
    DictUpdateZip(ids, entities.keys, entity_odoo_id)

----------------------------------------------------------------------------
(* base64.b64encode(...).decode("ascii"): a str as the sequence of the      *)
(* positions of its characters in the base64 alphabet, "=" being B64Pad     *)
B64Pad == 64

RECURSIVE b64encode(_)
b64encode(bytes) ==
    IF bytes = << >> THEN << >>
    ELSE IF Len(bytes) = 1 THEN
        LET n == bytes[1] * 65536
        IN  <<n \div 262144, (n \div 4096) % 64, B64Pad, B64Pad>>
    ELSE IF Len(bytes) = 2 THEN
        LET n == bytes[1] * 65536 + bytes[2] * 256
        IN  <<n \div 262144, (n \div 4096) % 64, (n \div 64) % 64, B64Pad>>
    ELSE
        LET n == bytes[1] * 65536 + bytes[2] * 256 + bytes[3]
        IN  <<n \div 262144, (n \div 4096) % 64, (n \div 64) % 64, n % 64>>
                \o b64encode(SubSeq(bytes, 4, Len(bytes)))

----------------------------------------------------------------------------
(* class Characters *)

\* values.update({f: v}) on an entity
SetField(e, f, v) == [x \in DOMAIN e \cup {f} |-> IF x = f THEN v ELSE e[x]]

\* Characters.upgrage_characters_photo: the loop over characters_dict.items()
RECURSIVE photo_loop(_, _, _)
photo_loop(keys, characters, images) ==
    IF keys = << >> THEN EmptyDict
    ELSE LET n == Len(keys)
             characters_id == keys[n]
             values == characters.val[characters_id]
             image == DictGet(images, characters_id, PyNone)
         IN  DictUpdate(photo_loop(SubSeq(keys, 1, n - 1), characters, images),
                        characters_id,
                        IF image # << >> THEN SetField(values, "image_1920", image)
                        ELSE values)

upgrage_characters_photo(characters, images) ==
    photo_loop(characters.keys, characters, images)

\* a lookup that keeps the source id when the map does not resolve it
planet_lookup_keep(value, ids_planets) ==
    IF "planet" \in DOMAIN value THEN DictGet(ids_planets, value.planet, value.planet)
    ELSE Blank

\* ids_planets_dict.get(value.get("planet"), "")
planet_lookup(value, ids_planets) ==
    IF "planet" \in DOMAIN value THEN DictGet(ids_planets, value.planet, Blank) ELSE Blank

\* Characters.upgrade_characters_info: the loop over characters_dict.items()
RECURSIVE info_loop(_, _, _)
info_loop(keys, characters, ids_planets) ==
    IF keys = << >> THEN EmptyDict
    ELSE LET n == Len(keys)
             key == keys[n]
             value == characters.val[key]
         IN  DictUpdate(info_loop(SubSeq(keys, 1, n - 1), characters, ids_planets),
                        key,
                        SetField(value, "planet", planet_lookup(value, ids_planets)))

\* the characters returned as they came, the planet not looked up
upgrade_characters_info_skip(characters, ids_planets) == characters

upgrade_characters_info(characters, ids_planets) ==
    info_loop(characters.keys, characters, ids_planets)

----------------------------------------------------------------------------
(* class Generator; a url is [base, page] or [base, jpg] *)

\* a page count that is one more than the quotient for every amount
generate_entity_urls_extra_page(base_url, amount) ==
    [page \in 1..(amount \div 10 + 1) |-> [base |-> base_url, page |-> page]]

\* Generator.generate_entity_urls, for the count the metadata request reports
generate_entity_urls(base_url, amount) ==
    LET pages == IF amount % 10 = 0 THEN amount \div 10 ELSE amount \div 10 + 1
    IN  [page \in 1..pages |-> [base |-> base_url, page |-> page]]

\* Generator.generate_photo_urls
generate_photo_urls(base_url, len) ==
    [entity_id \in 1..len |-> [base |-> base_url, jpg |-> entity_id]]

----------------------------------------------------------------------------
(* Source ids: a resource url is a sequence of characters ".../<id>/" *)

DigitValue(c) ==
    CASE c = "0" -> 0 [] c = "1" -> 1 [] c = "2" -> 2 [] c = "3" -> 3 [] c = "4" -> 4
      [] c = "5" -> 5 [] c = "6" -> 6 [] c = "7" -> 7 [] c = "8" -> 8 [] c = "9" -> 9

\* int(text) for a text of decimal digits
RECURSIVE int(_)
int(text) ==
    IF text = << >> THEN 0
    ELSE int(SubSeq(text, 1, Len(text) - 1)) * 10 + DigitValue(text[Len(text)])

\* text.rfind("/"), counted from 1; 0 when there is none
rfind(text) ==
    IF \E i \in 1..Len(text) : text[i] = "/"
    THEN CHOOSE i \in 1..Len(text) :
            text[i] = "/" /\ \A j \in (i + 1)..Len(text) : text[j] # "/"
    ELSE 0

\* int(url[(url[:-1].rfind("/") + 1) : -1])
id_from_url(url) ==
    LET cut == SubSeq(url, 1, Len(url) - 1)
    IN  int(SubSeq(url, rfind(cut) + 1, Len(url) - 1))

\* the items of all pages in order: page.get("results", "")
RECURSIVE items(_)
items(pages) ==
    IF pages = << >> THEN << >>
    ELSE Field(Head(pages), "results", << >>) \o items(Tail(pages))

\* a suppression that lets "0" through
suppress_unknown_only(value) == IF value # "unknown" THEN value ELSE ""

\* value if (value != "unknown" and value != "0") else ""
suppress(value) == IF value # "unknown" /\ value # "0" THEN value ELSE ""

\* Planets.generate_planet_info: the loops, over the items of all pages
RECURSIVE planet_loop(_)
planet_loop(planets_list) ==
    IF planets_list = << >> THEN EmptyDict
    ELSE LET n == Len(planets_list)
             before == planet_loop(SubSeq(planets_list, 1, n - 1))
             planet == planets_list[n]
             name == Field(planet, "name", "")
         IN  IF name = "unknown" THEN before
             ELSE DictUpdate(before, id_from_url(planet.url),
                             [name |-> name,
                              diameter |-> suppress(planet.diameter),
                              rotation_period |-> suppress(planet.rotation_period),
                              orbital_period |-> suppress(planet.orbital_period),
                              population |-> suppress(planet.population)])

generate_planet_info(pages) == planet_loop(items(pages))

\* a loop that reads the homeworld of a record before it looks at its name
RECURSIVE character_loop_homeworld_first(_)
character_loop_homeworld_first(characters_list) ==
    IF characters_list = << >> THEN [characters_dict |-> EmptyDict, planet_id |-> Blank]
    ELSE LET n == Len(characters_list)
             before == character_loop_homeworld_first(SubSeq(characters_list, 1, n - 1))
             character == characters_list[n]
             name == Field(character, "name", "")
             planet_url == Field(character, "homeworld", << >>)
             planet_id == IF planet_url # << >> THEN id_from_url(planet_url)
                          ELSE before.planet_id
         IN  IF name = "unknown"
             THEN [characters_dict |-> before.characters_dict, planet_id |-> planet_id]
             ELSE [characters_dict |->
                      DictUpdate(before.characters_dict, id_from_url(character.url),
                                 [name |-> name, planet |-> planet_id]),
                   planet_id |-> planet_id]

\* Characters.get_characters_info: the loops; planet_id lives across items and pages
RECURSIVE character_loop(_)
character_loop(characters_list) ==
    IF characters_list = << >> THEN [characters_dict |-> EmptyDict, planet_id |-> Blank]
    ELSE LET n == Len(characters_list)
             before == character_loop(SubSeq(characters_list, 1, n - 1))
             character == characters_list[n]
             name == Field(character, "name", "")
             planet_url == Field(character, "homeworld", << >>)
             planet_id == IF planet_url # << >> THEN id_from_url(planet_url)
                          ELSE before.planet_id
         IN  IF name = "unknown" THEN before
             ELSE [characters_dict |->
                      DictUpdate(before.characters_dict, id_from_url(character.url),
                                 [name |-> name, planet |-> planet_id]),
                   planet_id |-> planet_id]

get_characters_info(pages) == character_loop(items(pages)).characters_dict

----------------------------------------------------------------------------
(* class CharactersImage; a response body is [bytes, pillow]: its bytes    *)
(* and what Pillow's Image.open(BytesIO(bytes)) does with them, "opens" or *)
(* "raises"; which bytes Pillow reads is Pillow's matter, not the program's *)

\* try: Image.open(BytesIO(response)); return "image"  except: return "html"
determine_response_type(response) ==
    IF response.pillow = "opens" THEN "image" ELSE "html"

\* an upgrade_photo that numbers the images it decoded, not the payloads
upgrade_photo_numbering_images(image_info) ==
    LET images == SelectSeq(image_info, LAMBDA r : determine_response_type(r) = "image")
    IN  [image_dict |-> [keys |-> [i \in 1..Len(images) |-> i],
                         val |-> [i \in 1..Len(images) |-> b64encode(images[i].bytes)]],
         errors |-> [i \in 1..(Len(image_info) - Len(images)) |-> Len(images) + i]]

\* CharactersImage.upgrade_photo: image_dict, and the ids of the "Image error" log lines
RECURSIVE upgrade_photo(_)
upgrade_photo(image_info) ==
    IF image_info = << >> THEN [image_dict |-> EmptyDict, errors |-> << >>]
    ELSE LET character_id == Len(image_info)
             payload == image_info[character_id]
             before == upgrade_photo(SubSeq(image_info, 1, character_id - 1))
         IN  IF determine_response_type(payload) = "image"
             THEN [image_dict |-> DictUpdate(before.image_dict, character_id,
                                             b64encode(payload.bytes)),
                   errors |-> before.errors]
             ELSE [image_dict |-> DictUpdate(before.image_dict, character_id, << >>),
                   errors |-> Append(before.errors, character_id)]

----------------------------------------------------------------------------
(* Reconcile + upload of one collection, the program being run again      *)
(* against the store as the previous run left it                          *)

\* the sequences of at most n distinct elements of S
RECURSIVE InjSeqs(_, _)
InjSeqs(S, n) ==
    IF n = 0 THEN {<< >>}
    ELSE LET shorter == InjSeqs(S, n - 1)
         IN  shorter \cup {Append(s[1], s[2]) :
                             s \in {p \in shorter \X S : p[2] \notin SeqToSet(p[1])}}

SourceIds == 1..MaxCand
StoreIds == 1..MaxStore

\* dicts source id -> {"name": ...}, as the normalizers build them
CandidateDicts ==
    UNION {{[keys |-> ks, val |-> v] :
              v \in [SeqToSet(ks) -> {[name |-> n] : n \in Names}]} :
           ks \in InjSeqs(SourceIds, MaxCand)}

\* stores whose records have distinct ids and any names, in any query order
StoreContents ==
    UNION {{[i \in 1..Len(is) |-> [id |-> is[i], vals |-> [name |-> ns[i]]]] :
              ns \in [1..Len(is) -> Names]} :
           is \in InjSeqs(StoreIds, MaxStore)}

MaxRuns == 2

ReconIdle ==
    /\ rpc = "off"
    /\ run = 0
    /\ cands = EmptyDict
    /\ store = << >>
    /\ entity_dict = EmptyDict
    /\ ids_entity_dict = EmptyDict
    /\ result = << >>
    /\ created = << >>

PureIdle ==
    /\ op = "none"
    /\ arg_entities = EmptyDict
    /\ arg_map = EmptyDict
    /\ out = EmptyDict
    /\ prev = EmptyDict
    /\ times = 0

FetchIdle ==
    /\ fstate = "off"
    /\ furls = << >>
    /\ fphoto = FALSE
    /\ fbroken = {}
    /\ ftask = << >>
    /\ fres = << >>
    /\ flog = << >>
    /\ json_list = << >>

NoCall == [keys |-> << >>, vals |-> << >>, ids |-> << >>]

MainIdle ==
    /\ pc = "off"
    /\ urls_to_request = << >>
    /\ planet_dict = EmptyDict
    /\ ids_planets_dict = EmptyDict
    /\ characters_dict = EmptyDict
    /\ image_dict = EmptyDict
    /\ ids_character_dict = EmptyDict
    /\ odoo = [planets |-> << >>, characters |-> << >>]
    /\ hist = << >>
    /\ norm = [planets |-> EmptyDict, characters |-> EmptyDict]
    /\ queried = [planets |-> << >>, characters |-> << >>]
    /\ submitted = [planets |-> NoCall, characters |-> NoCall]
    /\ events = << >>
    /\ exit_status = NotExited

ReconInit ==
    /\ PureIdle
    /\ FetchIdle
    /\ MainIdle
    /\ rpc = "check"
    /\ run = 1
    /\ cands \in CandidateDicts
    /\ store \in StoreContents
    /\ entity_dict = cands
    /\ ids_entity_dict = EmptyDict
    /\ result = << >>
    /\ created = << >>

\* main.py:365 / 401: the search_read query and the matching by name
Check ==
    /\ rpc = "check"
    /\ LET res == search_read(store)
           checked == check_entity_in_odoo(res, cands)
       IN  /\ result' = res
           /\ entity_dict' = checked.entity_dict
           /\ ids_entity_dict' = checked.ids_entity_dict
    /\ rpc' = "upload"
    /\ UNCHANGED <<run, cands, store, created, pureVars, fetchVars, mainVars>>

\* main.py:368 / 407: the one create call and the merge of its ids
Upload ==
    /\ rpc = "upload"
    /\ LET vals_list == DictValues(entity_dict)
           entity_odoo_id == create_ids(store, vals_list)
       IN  /\ store' = create(store, vals_list)
           /\ ids_entity_dict' =
                 upload_entity_info_into_oddo(entity_dict, ids_entity_dict, entity_odoo_id)
           /\ created' = Append(created, [keys |-> entity_dict.keys,
                                          vals |-> vals_list,
                                          ids |-> entity_odoo_id])
    /\ rpc' = "done"
    /\ UNCHANGED <<run, cands, entity_dict, result, pureVars, fetchVars, mainVars>>

\* the program is started again with the same source data
Rerun ==
    /\ rpc = "done"
    /\ run < MaxRuns
    /\ run' = run + 1
    /\ rpc' = "check"
    /\ entity_dict' = cands
    /\ ids_entity_dict' = EmptyDict
    /\ UNCHANGED <<cands, store, result, created, pureVars, fetchVars, mainVars>>

ReconNext == Check \/ Upload \/ Rerun

SpecRecon == ReconInit /\ [][ReconNext]_vars

----------------------------------------------------------------------------
(* Properties of reconcile + upload *)

NameInResult(n) == \E i \in 1..Len(result) : result[i].name = n

\* id is the id of the first record of the query result named n
FirstWithName(n, id) ==
    \E i \in 1..Len(result) :
        /\ result[i].name = n
        /\ result[i].id = id
        /\ \A j \in 1..(i - 1) : result[j].name # n

CandName(k) == cands.val[k].name

Checked == rpc \in {"upload", "done"}

\* C1: idempotence across runs: the reconcile of the second run, against the
\* store as the first run left it and with the same candidates, matches every
\* candidate by name, so the create set is empty and nothing is created.
C1_SecondRunCreatesNothing ==
    (run = 2 /\ Checked) =>
        /\ entity_dict.keys = << >>
        /\ rpc = "done" => created[2].keys = << >>

\* C4: reconcile partitions the candidates: a candidate stays in the create
\* set iff its name is the name of no record of the query result; the others
\* are removed, are not submitted to create in that run, and are mapped to the
\* id of the first record of the query result with their name.
C4_ReconcilePartitions ==
    Checked =>
        /\ \A k \in SeqToSet(cands.keys) :
              /\ DictHas(entity_dict, k) <=> ~NameInResult(CandName(k))
              /\ DictHas(entity_dict, k) => entity_dict.val[k] = cands.val[k]
              /\ NameInResult(CandName(k)) =>
                    /\ DictHas(ids_entity_dict, k)
                    /\ FirstWithName(CandName(k), ids_entity_dict.val[k])
              /\ (rpc = "upload" /\ ~NameInResult(CandName(k))) =>
                    ~DictHas(ids_entity_dict, k)
        /\ SeqToSet(entity_dict.keys) \subseteq SeqToSet(cands.keys)
        /\ rpc = "done" =>
              \A i \in 1..Len(created[run].keys) :
                  ~NameInResult(CandName(created[run].keys[i]))

\* a candidate was matched to the first of two records of its name, another stays
C4_Witness ==
    /\ rpc = "upload"
    /\ \E k \in SeqToSet(cands.keys) :
          /\ ~DictHas(entity_dict, k)
          /\ \E i, j \in 1..Len(result) :
                i < j /\ result[i].name = CandName(k) /\ result[j].name = CandName(k)
    /\ entity_dict.keys # << >>

\* C5: upload submits all remaining candidates in one create call in key
\* order and extends the reconcile id map with (i-th submitted source id ->
\* i-th returned id); the keys of the id map are then exactly the source ids of
\* the collection, the matched and the created ones being disjoint.
C5_UploadExtendsIdMap ==
    rpc = "done" =>
        LET c == created[run]
            unmatched == SelectSeq(cands.keys, LAMBDA k : ~NameInResult(CandName(k)))
            matched == {k \in SeqToSet(cands.keys) : NameInResult(CandName(k))}
        IN  /\ Len(created) = run
            /\ c.keys = unmatched
            /\ c.vals = [i \in 1..Len(unmatched) |-> cands.val[unmatched[i]]]
            /\ Len(c.ids) = Len(c.keys)
            /\ \A i \in 1..Len(c.keys) : ids_entity_dict.val[c.keys[i]] = c.ids[i]
            /\ \A k \in matched : FirstWithName(CandName(k), ids_entity_dict.val[k])
            /\ SeqToSet(ids_entity_dict.keys) = SeqToSet(cands.keys)
            /\ Len(ids_entity_dict.keys) = Len(cands.keys)
            /\ matched \cap SeqToSet(c.keys) = {}
            /\ matched \cup SeqToSet(c.keys) = SeqToSet(cands.keys)

\* two records were created in one call, against a store that held records
C5_Witness ==
    /\ rpc = "done"
    /\ Len(created[run].keys) = 2
    /\ created[run].ids[1] # created[run].ids[2]
    /\ result # << >>

\* C19: reconcile compares a candidate with the records of the query result
\* only: candidates that share a name no queried record has all stay in the
\* create set, are all submitted in the run's one create call, and each gets
\* a target id of its own in the id map.
C19_SameNameCandidatesAllCreated ==
    Checked =>
        \A k1, k2 \in SeqToSet(cands.keys) :
            (k1 # k2 /\ CandName(k1) = CandName(k2) /\ ~NameInResult(CandName(k1))) =>
                /\ DictHas(entity_dict, k1)
                /\ DictHas(entity_dict, k2)
                /\ rpc = "done" =>
                      /\ Len(created) = run
                      /\ {k1, k2} \subseteq SeqToSet(created[run].keys)
                      /\ DictHas(ids_entity_dict, k1)
                      /\ DictHas(ids_entity_dict, k2)
                      /\ ids_entity_dict.val[k1] # ids_entity_dict.val[k2]
                      /\ \A k \in {k1, k2} :
                            \E i \in 1..Len(store) :
                                /\ store[i].id = ids_entity_dict.val[k]
                                /\ store[i].vals = cands.val[k]

\* two candidates named "a" uploaded to a store that has records, none named "a"
C19_Witness ==
    /\ rpc = "done"
    /\ run = 1
    /\ cands.keys = <<2, 1>>
    /\ CandName(1) = "a"
    /\ CandName(2) = "a"
    /\ result # << >>
    /\ created[1].keys = <<2, 1>>
    /\ ids_entity_dict.val[1] # ids_entity_dict.val[2]

----------------------------------------------------------------------------
(* The sources and the store a run meets *)

DigitChar(d) == CHOOSE c \in {"0", "1", "2", "3", "4", "5", "6", "7", "8", "9"} :
                    DigitValue(c) = d

Digits(n) == IF n < 10 THEN <<DigitChar(n)>> ELSE <<DigitChar(n \div 10), DigitChar(n % 10)>>

\* the url of resource id as the source API writes it
ResourceUrl(id) == <<"a", "p", "i", "/", "r", "/">> \o Digits(id) \o <<"/">>

PlanetRecord(id, name) ==
    [name |-> name, url |-> ResourceUrl(id), rotation_period |-> "24",
     orbital_period |-> "unknown", diameter |-> "0", population |-> "1000"]

CharacterRecord(id, name, home) ==
    [name |-> name, url |-> ResourceUrl(id), homeworld |-> ResourceUrl(home)]

Homeless(id, name) == [name |-> name, url |-> ResourceUrl(id)]

\* a JSON body without "results", as an error answer carries
ErrorJson == [detail |-> "Not found"]

PlanetPages ==
    {[results |-> <<PlanetRecord(1, "a")>>],
     [results |-> <<PlanetRecord(2, "b"), PlanetRecord(12, "unknown")>>],
     [results |-> <<PlanetRecord(2, "a")>>]}

CharacterPages ==
    {[results |-> <<CharacterRecord(1, "x", 1)>>],
     [results |-> <<Homeless(2, "y"), CharacterRecord(3, "unknown", 2)>>],
     [results |-> <<CharacterRecord(2, "z", 9)>>],
     [results |-> <<CharacterRecord(5, "x", 2)>>]}

\* a complete 1x1 GIF file, which Pillow reads
GifFile ==
    [bytes |-> <<71, 73, 70, 56, 57, 97, 1, 0, 1, 0, 128, 0, 0, 0, 0, 0, 255, 255, 255,
                 33, 249, 4, 1, 0, 0, 0, 0, 44, 0, 0, 0, 0, 1, 0, 1, 0, 0, 2, 1, 68, 0,
                 59>>,
     pillow |-> "opens"]

\* a complete 1x1 PNG file, which Pillow reads
PngFile ==
    [bytes |-> <<137, 80, 78, 71, 13, 10, 26, 10, 0, 0, 0, 13, 73, 72, 68, 82, 0, 0, 0,
                 1, 0, 0, 0, 1, 8, 6, 0, 0, 0, 31, 21, 196, 137, 0, 0, 0, 13, 73, 68, 65,
                 84, 120, 218, 99, 100, 96, 248, 95, 15, 0, 2, 135, 1, 128, 235, 71,
                 186, 146, 0, 0, 0, 0, 73, 69, 78, 68, 174, 66, 96, 130>>,
     pillow |-> "opens"]

\* the first four bytes of a PNG file: Pillow does not identify them
TruncatedPng == [bytes |-> <<137, 80, 78, 71>>, pillow |-> "raises"]

\* the page "<html>" an image service answers with for an image it has not
HtmlPage == [bytes |-> <<60, 104, 116, 109, 108, 62>>, pillow |-> "raises"]

EmptyBody == [bytes |-> << >>, pillow |-> "raises"]

\* the count the metadata request reports
Counts == {0, 10, 11}

\* the decoded bodies of the payloads of json_list: a page for a 2xx answer
PagesOf(payloads, pages) ==
    {ps \in [1..Len(payloads) -> pages \cup {ErrorJson}] :
        \A i \in 1..Len(payloads) : payloads[i].status = 200 <=> ps[i] \in pages}

\* the bytes of the payloads of json_list: the image service answers with an
\* image or with an HTML page
BytesOf(payloads) ==
    {bs \in [1..Len(payloads) -> {GifFile, HtmlPage}] :
        \A i \in 1..Len(payloads) : payloads[i].status # 200 => bs[i] = HtmlPage}

\* a planet and a character an earlier run or a user left in the store
StoredPlanet == [id |-> 7, vals |-> [name |-> "a", diameter |-> "5"]]
StoredCharacter == [id |-> 3, vals |-> [name |-> "x", planet |-> 7]]

InitialStores ==
    {[planets |-> ps, characters |-> cs] :
        ps \in {<< >>, <<StoredPlanet>>},
        cs \in {<< >>, <<StoredCharacter>>}}

----------------------------------------------------------------------------
(* The functions applied to drawn inputs, those of class Characters also   *)
(* applied again to their own result                                       *)

CharacterIds == 1..MaxChar
PlanetIds == 1..2

\* dicts as get_characters_info builds them: {"name": ..., "planet": id or ""}
CharacterDicts ==
    UNION {{[keys |-> ks, val |-> v] :
              v \in [SeqToSet(ks) -> {[name |-> "a", planet |-> p] :
                                        p \in PlanetIds \cup {Blank}}]} :
           ks \in InjSeqs(CharacterIds, MaxChar)}

\* values of an image map: "" or the base64 text of some bytes
ImageTexts == {<< >>, b64encode(GifFile.bytes)}

\* image maps as upgrade_photo builds them: keys 1..n
ImageDicts ==
    UNION {{[keys |-> [i \in 1..n |-> i], val |-> v] : v \in [1..n -> ImageTexts]} :
           n \in 0..MaxImg}

\* id maps source planet id -> target id
PlanetIdMaps ==
    UNION {{[keys |-> ks, val |-> v] : v \in [SeqToSet(ks) -> 1..MaxTarget]} :
           ks \in InjSeqs(PlanetIds, 2)}

PureInit == ReconIdle /\ PureIdle /\ FetchIdle /\ MainIdle

ApplyPhoto ==
    /\ op = "none"
    /\ \E characters \in CharacterDicts, images \in ImageDicts :
          /\ arg_entities' = characters
          /\ arg_map' = images
          /\ out' = upgrage_characters_photo(characters, images)
    /\ op' = "upgrage_characters_photo"
    /\ times' = 1
    /\ UNCHANGED <<prev, reconVars, fetchVars, mainVars>>

ApplyInfo ==
    /\ op = "none"
    /\ \E characters \in CharacterDicts, ids_planets \in PlanetIdMaps :
          /\ arg_entities' = characters
          /\ arg_map' = ids_planets
          /\ out' = upgrade_characters_info(characters, ids_planets)
    /\ op' = "upgrade_characters_info"
    /\ times' = 1
    /\ UNCHANGED <<prev, reconVars, fetchVars, mainVars>>

\* the same function once more, on its own result and with the same map
ApplyAgain ==
    /\ times = 1
    /\ op \in {"upgrage_characters_photo", "upgrade_characters_info"}
    /\ out' = IF op = "upgrage_characters_photo"
              THEN upgrage_characters_photo(out, arg_map)
              ELSE upgrade_characters_info(out, arg_map)
    /\ prev' = out
    /\ times' = 2
    /\ UNCHANGED <<op, arg_entities, arg_map, reconVars, fetchVars, mainVars>>

\* the sequences of at most n elements of S
SeqsUpTo(S, n) == UNION {[1..k -> S] : k \in 0..n}

\* the ways the source can page a list of items, and an error answer before
\* the items' page
RECURSIVE Splits(_)
Splits(its) ==
    IF its = << >> THEN {<< >>}
    ELSE UNION {{<<[results |-> SubSeq(its, 1, n)]>> \o rest :
                   rest \in Splits(SubSeq(its, n + 1, Len(its)))} :
                n \in 1..Len(its)}

PageLists(its) == Splits(its) \cup {<<ErrorJson, [results |-> its]>>}

NumericFields == {"diameter", "rotation_period", "orbital_period", "population"}
RawValues == {"unknown", "0", "6760"}

\* the numeric fields of a planet: all plain, one of them a sentinel, the
\* record of the example (diameter unknown, population 0), or a "00"
RawPlanetFields ==
    {f \in [NumericFields -> RawValues] :
        Cardinality({x \in NumericFields : f[x] # "6760"}) <= 1}
    \cup {[diameter |-> "unknown", rotation_period |-> "24", orbital_period |-> "6760",
           population |-> "0"],
          [diameter |-> "00", rotation_period |-> "6760", orbital_period |-> "6760",
           population |-> "6760"]}

RawPlanets ==
    {[name |-> w[2], url |-> ResourceUrl(w[1]), diameter |-> f.diameter,
      rotation_period |-> f.rotation_period, orbital_period |-> f.orbital_period,
      population |-> f.population] :
        w \in {<<1, "a">>, <<1, "unknown">>, <<2, "Unknown">>, <<2, "unknown">>},
        f \in RawPlanetFields}

RawCharacters ==
    {CharacterRecord(id, name, home) : id \in 1..2, name \in {"x", "unknown"},
                                       home \in 11..12}
    \cup {Homeless(id, name) : id \in 1..2, name \in {"x", "unknown"}}

\* bodies the image service answers with: two images, the beginning of an
\* image, an HTML page and an empty body
Payloads == {GifFile, PngFile, TruncatedPng, HtmlPage, EmptyBody}

ApplyEntityUrls ==
    /\ op = "none"
    /\ \E amount \in 0..MaxCount :
          /\ arg_entities' = amount
          /\ out' = generate_entity_urls("planet_url", amount)
    /\ op' = "generate_entity_urls"
    /\ times' = 1
    /\ UNCHANGED <<arg_map, prev, reconVars, fetchVars, mainVars>>

ApplyPlanetInfo ==
    /\ op = "none"
    /\ \E its \in SeqsUpTo(RawPlanets, MaxPlanetItems) :
          \E json_planets \in PageLists(its) :
             /\ arg_entities' = json_planets
             /\ out' = generate_planet_info(json_planets)
    /\ op' = "generate_planet_info"
    /\ times' = 1
    /\ UNCHANGED <<arg_map, prev, reconVars, fetchVars, mainVars>>

ApplyCharactersInfo ==
    /\ op = "none"
    /\ \E its \in SeqsUpTo(RawCharacters, MaxCharacterItems) :
          \E json_characters \in PageLists(its) :
             /\ arg_entities' = json_characters
             /\ out' = get_characters_info(json_characters)
    /\ op' = "get_characters_info"
    /\ times' = 1
    /\ UNCHANGED <<arg_map, prev, reconVars, fetchVars, mainVars>>

ApplyUpgradePhoto ==
    /\ op = "none"
    /\ \E image_info \in SeqsUpTo(Payloads, MaxPayloads) :
          /\ arg_entities' = image_info
          /\ out' = upgrade_photo(image_info)
    /\ op' = "upgrade_photo"
    /\ times' = 1
    /\ UNCHANGED <<arg_map, prev, reconVars, fetchVars, mainVars>>

PureNext ==
    \/ ApplyPhoto \/ ApplyInfo \/ ApplyAgain
    \/ ApplyEntityUrls \/ ApplyPlanetInfo \/ ApplyCharactersInfo \/ ApplyUpgradePhoto

SpecPure == PureInit /\ [][PureNext]_vars

----------------------------------------------------------------------------
(* Properties of upgrage_characters_photo and upgrade_characters_info *)

HasImage(k) == DictHas(arg_map, k) /\ arg_map.val[k] # << >>

\* C9: merge_images adds image_1920 only when the image map holds a non-empty
\* value for the entity's source id; an entity with no entry, or with the
\* empty string, is returned without image_1920 and otherwise unchanged.
C9_ImageOnlyWhenNonEmpty ==
    (op = "upgrage_characters_photo" /\ times = 1) =>
        /\ out.keys = arg_entities.keys
        /\ \A k \in SeqToSet(arg_entities.keys) :
              /\ HasImage(k) =>
                    out.val[k] = SetField(arg_entities.val[k], "image_1920", arg_map.val[k])
              /\ ~HasImage(k) =>
                    /\ "image_1920" \notin DOMAIN out.val[k]
                    /\ out.val[k] = arg_entities.val[k]

\* the planet values after the first application are all fixed by the map
PlanetsFixed ==
    \A k \in SeqToSet(prev.keys) :
        DictGet(arg_map, prev.val[k].planet, Blank) = prev.val[k].planet

\* C10 as stated: both operations are idempotent: a second application with
\* the same map to the result of the first gives the same entities.
C10_BothIdempotent == times = 2 => out = prev

\* C10 amended: upgrage_characters_photo is idempotent for every input;
\* upgrade_characters_info looks the planet of its own result up again, so
\* its second application gives the same entities exactly when every planet
\* value of the first result is mapped to itself (the empty value always is).
C10_IdempotentPhotoFixedInfo ==
    times = 2 =>
        /\ op = "upgrage_characters_photo" => out = prev
        /\ op = "upgrade_characters_info" => (out = prev <=> PlanetsFixed)

\* a second remap that turned a resolved planet into the empty value
C10_Witness ==
    /\ times = 2
    /\ op = "upgrade_characters_info"
    /\ \E k \in SeqToSet(prev.keys) :
          /\ arg_entities.val[k].planet # Blank
          /\ prev.val[k].planet # Blank
          /\ out.val[k].planet = Blank

----------------------------------------------------------------------------
(* Properties of generate_entity_urls, generate_planet_info,               *)
(* get_characters_info and upgrade_photo                                   *)

\* the least n with 10 * n >= c
CeilTenth(c) == CHOOSE n \in 0..c : 10 * n >= c /\ 10 * (n - 1) < c

\* C14: for an item count c >= 0, generate_entity_urls returns ceil(c/10)
\* urls, the i-th being base_url?page=i: none for c = 0, one for c = 10, two
\* for c = 11.
C14_PagesAreCeilOfCount ==
    op = "generate_entity_urls" =>
        /\ Len(out) = CeilTenth(arg_entities)
        /\ \A i \in 1..Len(out) : out[i] = [base |-> "planet_url", page |-> i]
        /\ arg_entities = 0 => out = << >>
        /\ arg_entities = 10 => Len(out) = 1
        /\ arg_entities = 11 => Len(out) = 2

\* a count that is a multiple of ten, and more than one page
C14_Witness ==
    /\ op = "generate_entity_urls"
    /\ arg_entities = 20
    /\ Len(out) = 2

\* the records of the pages given, in page order then item order
GivenItems == items(arg_entities)

\* the positions of the records that are kept
Kept == {i \in 1..Len(GivenItems) : GivenItems[i].name # "unknown"}

GivenId(i) == id_from_url(GivenItems[i].url)

\* the position of the last kept record with source id k
LastKept(k) ==
    CHOOSE i \in Kept : GivenId(i) = k /\ \A j \in Kept : GivenId(j) = k => j <= i

\* C15: generate_planet_info has an entry for exactly the source ids of the
\* records whose name is not "unknown"; the entry of an id comes from the
\* last such record with that id, and each of its four numeric fields is
\* blank when the raw value is "unknown" or "0" and is the raw value otherwise.
C15_SentinelsSuppressed ==
    op = "generate_planet_info" =>
        /\ SeqToSet(out.keys) = {GivenId(i) : i \in Kept}
        /\ \A k \in SeqToSet(out.keys) :
              LET raw == GivenItems[LastKept(k)]
              IN  /\ out.val[k].name = raw.name
                  /\ out.val[k].name # "unknown"
                  /\ DOMAIN out.val[k] = NumericFields \cup {"name"}
                  /\ \A f \in NumericFields :
                        out.val[k][f] = IF raw[f] \in {"unknown", "0"} THEN "" ELSE raw[f]

\* the record of the example next to a record named "unknown": diameter and
\* population blank, the rotation period kept, the other record left out
C15_Witness ==
    /\ op = "generate_planet_info"
    /\ Len(GivenItems) = 2
    /\ GivenItems[2].name = "unknown"
    /\ GivenItems[1].diameter = "unknown"
    /\ GivenItems[1].population = "0"
    /\ out.keys = <<1>>
    /\ out.val[1].diameter = ""
    /\ out.val[1].population = ""
    /\ out.val[1].rotation_period = "24"

\* the bytes a base64 text stands for
RECURSIVE B64Decode(_)
B64Decode(text) ==
    IF Len(text) < 4 THEN << >>
    ELSE LET c == IF text[3] = B64Pad THEN 0 ELSE text[3]
             d == IF text[4] = B64Pad THEN 0 ELSE text[4]
             n == text[1] * 262144 + text[2] * 4096 + c * 64 + d
             bytes == <<n \div 65536, (n \div 256) % 256, n % 256>>
             count == IF text[3] = B64Pad THEN 1 ELSE IF text[4] = B64Pad THEN 2 ELSE 3
         IN  SubSeq(bytes, 1, count) \o B64Decode(SubSeq(text, 5, Len(text)))

\* C16: upgrade_photo has exactly the keys 1..number of payloads, in that
\* order, the payload at 0-based position i under key i+1: for a payload that
\* decodes as an image a non-empty base64 text that stands for the payload's
\* bytes, for any other payload the empty string; and the diagnostics name
\* exactly the ids of the payloads that did not decode, once each.
C16_PhotoKeyedByPosition ==
    op = "upgrade_photo" =>
        LET n == Len(arg_entities)
            bad == {i \in 1..n : determine_response_type(arg_entities[i]) # "image"}
        IN  /\ out.image_dict.keys = [i \in 1..n |-> i]
            /\ \A i \in (1..n) \ bad :
                  /\ out.image_dict.val[i] # << >>
                  /\ Len(out.image_dict.val[i]) % 4 = 0
                  /\ \A j \in 1..Len(out.image_dict.val[i]) :
                        out.image_dict.val[i][j] \in 0..64
                  /\ B64Decode(out.image_dict.val[i]) = arg_entities[i].bytes
            /\ \A i \in bad : out.image_dict.val[i] = << >>
            /\ SeqToSet(out.errors) = bad
            /\ Len(out.errors) = Cardinality(bad)

\* an image at index 0 and an HTML page at index 1
C16_Witness ==
    /\ op = "upgrade_photo"
    /\ arg_entities = <<PngFile, HtmlPage>>
    /\ out.image_dict.val[1] # << >>
    /\ out.image_dict.val[2] = << >>
    /\ out.errors = <<2>>

\* the planet id remembered at position i: the homeworld id of the latest
\* kept record up to i that has a homeworld
Remembered(i) ==
    LET homes == {j \in Kept : j <= i /\ "homeworld" \in DOMAIN GivenItems[j]}
    IN  IF homes = {} THEN Blank
        ELSE id_from_url(GivenItems[CHOOSE j \in homes : \A h \in homes : h <= j].homeworld)

\* C17: in get_characters_info the planet of a kept record is the id parsed
\* from its homeworld, and for a record without homeworld the id parsed from
\* the homeworld of the most recent earlier kept record that had one, in page
\* order then item order across pages, the empty value if there is none;
\* records named "unknown" are left out and do not change the remembered id.
C17_HomeworldCarriedForward ==
    op = "get_characters_info" =>
        /\ SeqToSet(out.keys) = {GivenId(i) : i \in Kept}
        /\ \A k \in SeqToSet(out.keys) :
              /\ out.val[k].name = GivenItems[LastKept(k)].name
              /\ out.val[k].planet = Remembered(LastKept(k))

\* a kept record with a homeworld, on the next page a record named "unknown"
\* with another homeworld, and on a third page a kept record without one
C17_Witness ==
    /\ op = "get_characters_info"
    /\ Len(arg_entities) = 3
    /\ Len(GivenItems) = 3
    /\ GivenItems[1] = CharacterRecord(1, "x", 11)
    /\ GivenItems[2] = CharacterRecord(1, "unknown", 12)
    /\ GivenItems[3] = Homeless(2, "x")
    /\ out.val[2].planet = 11

----------------------------------------------------------------------------
\* the statements with the remap placed before the reconciliation
MainOrderRemapFirst ==
    <<"parse_args", "get_parameters",
      "plan_planets", "fetch_planets", "normalize_planets", "check_planets",
      "upload_planets", "plan_characters", "fetch_characters",
      "normalize_characters", "plan_photos", "fetch_photos", "upgrade_photo",
      "merge_photos", "remap_characters", "check_characters",
      "upload_characters", "done">>

\* the statements with the characters' pages requested before the planets'
\* create call is made
MainOrderPlanEarly ==
    <<"parse_args", "get_parameters",
      "plan_planets", "fetch_planets", "normalize_planets", "check_planets",
      "plan_characters", "fetch_characters", "upload_planets",
      "normalize_characters", "plan_photos", "fetch_photos", "upgrade_photo",
      "merge_photos", "check_characters", "remap_characters",
      "upload_characters", "done">>

(* __main__: the statements in the order they are written *)
MainOrder ==
    <<"parse_args", "get_parameters",
      "plan_planets", "fetch_planets", "normalize_planets", "check_planets",
      "upload_planets", "plan_characters", "fetch_characters",
      "normalize_characters", "plan_photos", "fetch_photos", "upgrade_photo",
      "merge_photos", "check_characters", "remap_characters",
      "upload_characters", "done">>

StepIndex(step) == CHOOSE i \in 1..Len(MainOrder) : MainOrder[i] = step

\* the statement after step
NextStep(step) == MainOrder[StepIndex(step) + 1]

\* the statements that call models.execute_kw
RpcSteps == {"check_planets", "upload_planets", "check_characters", "upload_characters"}

\* what a statement calls: common.authenticate inside get_parameters,
\* requests.get inside generate_entity_urls, asynchron.request_all, or
\* execute_kw's method
MethodOf(step) ==
    CASE step = "get_parameters" -> "authenticate"
      [] step \in {"plan_planets", "plan_characters"} -> "requests.get"
      [] step \in {"fetch_planets", "fetch_characters", "fetch_photos"} -> "request_all"
      [] step \in {"check_planets", "check_characters"} -> "search_read"
      [] step \in {"upload_planets", "upload_characters"} -> "create"

\* the server a statement calls: the Odoo server or the source API
ServerOf(step) == IF step = "get_parameters" \/ step \in RpcSteps THEN "odoo" ELSE "swapi"

\* base_model of an execute_kw call, "" for a call that names no model
ModelOf(step) ==
    CASE step \in {"check_planets", "upload_planets"} -> "planets"
      [] step \in {"check_characters", "upload_characters"} -> "characters"
      [] OTHER -> ""

\* ev is "call", "return", "fault" for a call that raised xmlrpc.client.Fault,
\* or "refused" for one that raised ConnectionRefusedError
Event(ev, step) ==
    [ev |-> ev, step |-> step, server |-> ServerOf(step), method |-> MethodOf(step),
     model |-> ModelOf(step)]

----------------------------------------------------------------------------
(* class Asynchron *)

\* what one attempt at a url can meet: session.get raising (transport), the
\* body read raising (payload), or a response with a status and a body that
\* is JSON or not; a photo body is bytes
Outcomes(photo) ==
    {[kind |-> "transport_error", status |-> 0, json |-> FALSE],
     [kind |-> "payload_error", status |-> 200, json |-> FALSE]}
    \cup {[kind |-> "response", status |-> st, json |-> j] :
            st \in {200, 404}, j \in IF photo THEN {FALSE} ELSE BOOLEAN}

\* get_entity: session.get(url) or response.json() raises; the status is not looked at
get_entity_raises(o) == o.kind # "response" \/ ~o.json

\* get_photo: session.get(url) or response.read() raises; the status is not looked at
get_photo_raises(o) == o.kind # "response"

attempt_raises(o, photo) == IF photo THEN get_photo_raises(o) ELSE get_entity_raises(o)

\* an attempt that is a failure: a transport error, a non-2xx status or a
\* payload that does not decode
FailedAttempt(o, photo) ==
    \/ o.kind # "response"
    \/ o.status \notin 200..299
    \/ ~photo /\ ~o.json

\* tqdm_asyncio.gather: the results in the order of the awaitables given
gather(res) ==
    [i \in 1..Len(res) |-> res[CHOOSE k \in 1..Len(res) : res[k][1] = i][2]]

\* the coroutine of url i enters session.get
Send(i) ==
    /\ fstate = "running"
    /\ ftask[i] = "new"
    /\ ftask' = [ftask EXCEPT ![i] = "sent"]
    /\ UNCHANGED <<fstate, furls, fphoto, fbroken, fres, flog, json_list>>
    /\ UNCHANGED <<reconVars, pureVars, mainVars>>

\* except Exception: one log line, then the while loop issues the url again
Retry(i) ==
    /\ fstate = "running"
    /\ ftask[i] = "sent"
    /\ Len(flog) < (IF pc = "off" THEN MaxFails ELSE MaxRunFails)
    /\ \E o \in Outcomes(fphoto) : attempt_raises(o, fphoto)
    /\ flog' = Append(flog, furls[i])
    /\ ftask' = [ftask EXCEPT ![i] = "new"]
    /\ UNCHANGED <<fstate, furls, fphoto, fbroken, fres, json_list>>
    /\ UNCHANGED <<reconVars, pureVars, mainVars>>

\* return await response.json() / response.read()
Complete(i) ==
    /\ fstate = "running"
    /\ ftask[i] = "sent"
    /\ \E o \in Outcomes(fphoto) :
          /\ ~attempt_raises(o, fphoto)
          /\ i \in fbroken => FailedAttempt(o, fphoto)
          /\ fres' = Append(fres, <<i, [url |-> furls[i], status |-> o.status]>>)
    /\ ftask' = [ftask EXCEPT ![i] = "done"]
    /\ UNCHANGED <<fstate, furls, fphoto, fbroken, flog, json_list>>
    /\ UNCHANGED <<reconVars, pureVars, mainVars>>

\* gather has every result: request_all returns json_list
Return ==
    /\ fstate = "running"
    /\ \A i \in 1..Len(furls) : ftask[i] = "done"
    /\ json_list' = gather(fres)
    /\ fstate' = "returned"
    /\ pc' = IF pc = "off" THEN pc ELSE NextStep(pc)
    /\ events' = IF pc = "off" THEN events ELSE Append(events, Event("return", pc))
    /\ UNCHANGED <<furls, fphoto, fbroken, ftask, fres, flog>>
    /\ UNCHANGED <<urls_to_request, planet_dict, ids_planets_dict, characters_dict,
                   image_dict, ids_character_dict, odoo, hist, norm, queried, submitted,
                   exit_status>>
    /\ UNCHANGED <<reconVars, pureVars>>

FetchInit ==
    /\ ReconIdle
    /\ PureIdle
    /\ MainIdle
    /\ fstate = "running"
    /\ \E n \in 0..MaxUrls :
          /\ furls = [i \in 1..n |-> i]
          /\ ftask = [i \in 1..n |-> "new"]
          /\ fbroken \in SUBSET (1..n)
    /\ fphoto \in BOOLEAN
    /\ fres = << >>
    /\ flog = << >>
    /\ json_list = << >>

Sends == \E i \in 1..Len(furls) : Send(i)
Retries == \E i \in 1..Len(furls) : Retry(i)
Completes == \E i \in 1..Len(furls) : Complete(i)

FetchNext == Sends \/ Retries \/ Completes \/ Return

SpecFetch == FetchInit /\ [][FetchNext]_vars

----------------------------------------------------------------------------
(* __main__ *)

\* xmlrpc.client refuses to marshal None (ServerProxy without allow_none);
\* None can only be the value of image_1920
marshals(vals_list) ==
    \A i \in 1..Len(vals_list) :
        "image_1920" \in DOMAIN vals_list[i] => vals_list[i].image_1920 # PyNone

Step ==
    /\ pc' = NextStep(pc)
    /\ hist' = Append(hist, pc)

\* asyncio.run has returned and its result is consumed: the batch is gone
FetchDone ==
    /\ fstate' = "off"
    /\ furls' = << >>
    /\ fphoto' = FALSE
    /\ fbroken' = {}
    /\ ftask' = << >>
    /\ fres' = << >>
    /\ flog' = << >>
    /\ json_list' = << >>

RunInit ==
    /\ ReconIdle
    /\ PureIdle
    /\ FetchIdle
    /\ pc = MainOrder[1]
    /\ urls_to_request = << >>
    /\ planet_dict = EmptyDict
    /\ ids_planets_dict = EmptyDict
    /\ characters_dict = EmptyDict
    /\ image_dict = EmptyDict
    /\ ids_character_dict = EmptyDict
    /\ odoo \in InitialStores
    /\ hist = << >>
    /\ norm = [planets |-> EmptyDict, characters |-> EmptyDict]
    /\ queried = [planets |-> << >>, characters |-> << >>]
    /\ submitted = [planets |-> NoCall, characters |-> NoCall]
    /\ events = << >>
    /\ exit_status = NotExited

\* main.py:343-346: parse_args returns with the config path, or ends the
\* process: with status 0 after printing the help (-h, --help), with status 2
\* on a usage error (the config argument missing, an argument not known)
ParseArgs ==
    /\ pc = "parse_args"
    /\ \E argv \in {"config", "help", "usage_error"} :
          IF argv = "config"
          THEN /\ Step
               /\ UNCHANGED exit_status
          ELSE /\ pc' = "exit"
               /\ exit_status' = IF argv = "help" THEN 0 ELSE 2
               /\ hist' = Append(hist, pc)
    /\ UNCHANGED <<urls_to_request, planet_dict, ids_planets_dict, characters_dict,
                   image_dict, ids_character_dict, odoo, norm, queried, submitted,
                   events>>
    /\ UNCHANGED <<reconVars, pureVars, fetchVars>>

\* main.py:349, get_parameters (main.py:15-57): the configuration is read (a
\* missing section or key raises KeyError, which nobody catches), then
\* common.authenticate is called; xmlrpc.client.Fault and
\* ConnectionRefusedError are answered with a log line, a message and
\* sys.exit(1). A wrong password is no fault: authenticate returns False.
GetParameters ==
    /\ pc = "get_parameters"
    /\ \E outcome \in {"KeyError", "return", "fault", "refused"} :
          IF outcome = "KeyError"
          THEN /\ pc' = "failed"
               /\ exit_status' = 1
               /\ hist' = Append(hist, pc)
               /\ UNCHANGED events
          ELSE /\ events' = events \o <<Event("call", pc), Event(outcome, pc)>>
               /\ IF outcome = "return"
                  THEN /\ Step
                       /\ UNCHANGED exit_status
                  ELSE /\ pc' = "exit"
                       /\ exit_status' = 1
                       /\ hist' = Append(hist, pc)
    /\ UNCHANGED <<urls_to_request, planet_dict, ids_planets_dict, characters_dict,
                   image_dict, ids_character_dict, odoo, norm, queried, submitted>>
    /\ UNCHANGED <<reconVars, pureVars, fetchVars>>

\* main.py:356 and 380
PlanPages ==
    /\ pc \in {"plan_planets", "plan_characters"}
    /\ \E amount \in Counts :
          urls_to_request' =
             generate_entity_urls(IF pc = "plan_planets" THEN "planet_url"
                                  ELSE "character_url", amount)
    /\ events' = events \o <<Event("call", pc), Event("return", pc)>>
    /\ Step
    /\ UNCHANGED exit_status
    /\ UNCHANGED <<planet_dict, ids_planets_dict, characters_dict, image_dict,
                   ids_character_dict, odoo, norm, queried, submitted>>
    /\ UNCHANGED <<reconVars, pureVars, fetchVars>>

\* main.py:359, 383 and 392: asyncio.run(asynchron.request_all(...)) is entered
RequestAll ==
    /\ pc \in {"fetch_planets", "fetch_characters", "fetch_photos"}
    /\ fstate = "off"
    /\ fstate' = "running"
    /\ furls' = urls_to_request
    /\ fphoto' = (pc = "fetch_photos")
    /\ fbroken' = {}
    /\ ftask' = [i \in 1..Len(urls_to_request) |-> "new"]
    /\ fres' = << >>
    /\ flog' = << >>
    /\ json_list' = << >>
    /\ hist' = Append(hist, pc)
    /\ events' = Append(events, Event("call", pc))
    /\ UNCHANGED <<pc, urls_to_request, planet_dict, ids_planets_dict, characters_dict,
                   image_dict, ids_character_dict, odoo, norm, queried, submitted,
                   exit_status>>
    /\ UNCHANGED <<reconVars, pureVars>>

\* main.py:361
NormalizePlanets ==
    /\ pc = "normalize_planets"
    /\ \E pages \in PagesOf(json_list, PlanetPages) :
          /\ planet_dict' = generate_planet_info(pages)
          /\ norm' = [norm EXCEPT !.planets = generate_planet_info(pages)]
    /\ FetchDone
    /\ Step
    /\ UNCHANGED <<events, exit_status>>
    /\ UNCHANGED <<urls_to_request, ids_planets_dict, characters_dict, image_dict,
                   ids_character_dict, odoo, queried, submitted>>
    /\ UNCHANGED <<reconVars, pureVars>>

\* the last call __main__ made has not ended
Outstanding == events # << >> /\ events[Len(events)].ev = "call"

\* the execute_kw call of statement step is with the store
CallSent(step) == Outstanding /\ events[Len(events)].step = step

\* a fault that is swallowed: the run goes on with the next statement
on_fault_continue(step) == [pc |-> NextStep(step), exit_status |-> NotExited]

\* main.py:306-310: except xmlrpc.client.Fault: print(...), sys.exit(1)
on_fault(step) == [pc |-> "exit", exit_status |-> 1]

\* check_entity_in_odoo's search_read raised xmlrpc.client.Fault
SearchReadFault ==
    /\ events' = Append(events, Event("fault", pc))
    /\ pc' = on_fault(pc).pc
    /\ exit_status' = on_fault(pc).exit_status
    /\ hist' = Append(hist, pc)

\* main.py:280 and 325: models.execute_kw sends its request and blocks; the
\* arguments of create are marshalled first, and a None among them raises
ExecuteKw ==
    /\ pc \in RpcSteps
    /\ ~CallSent(pc)
    /\ LET vals_list == DictValues(IF pc = "upload_planets" THEN planet_dict
                                   ELSE characters_dict)
       IN  IF MethodOf(pc) = "create" /\ ~marshals(vals_list)
           THEN /\ pc' = "failed"
                /\ exit_status' = 1
                /\ hist' = Append(hist, pc)
                /\ UNCHANGED events
           ELSE /\ events' = Append(events, Event("call", pc))
                /\ UNCHANGED <<pc, exit_status, hist>>
    /\ UNCHANGED <<urls_to_request, planet_dict, ids_planets_dict, characters_dict,
                   image_dict, ids_character_dict, odoo, norm, queried, submitted>>
    /\ UNCHANGED <<reconVars, pureVars, fetchVars>>

\* main.py:365
CheckPlanets ==
    /\ pc = "check_planets"
    /\ CallSent(pc)
    /\ \/ /\ SearchReadFault
          /\ UNCHANGED <<queried, planet_dict, ids_planets_dict>>
       \/ /\ LET res == search_read(odoo.planets)
                 checked == check_entity_in_odoo(res, planet_dict)
             IN  /\ queried' = [queried EXCEPT !.planets = res]
                 /\ planet_dict' = checked.entity_dict
                 /\ ids_planets_dict' = checked.ids_entity_dict
          /\ events' = Append(events, Event("return", pc))
          /\ Step
          /\ UNCHANGED exit_status
    /\ UNCHANGED <<urls_to_request, characters_dict, image_dict, ids_character_dict,
                   odoo, norm, submitted>>
    /\ UNCHANGED <<reconVars, pureVars, fetchVars>>

\* main.py:368
UploadPlanets ==
    /\ pc = "upload_planets"
    /\ CallSent(pc)
    /\ LET vals_list == DictValues(planet_dict)
           entity_odoo_id == create_ids(odoo.planets, vals_list)
       IN  /\ odoo' = [odoo EXCEPT !.planets = create(odoo.planets, vals_list)]
           /\ ids_planets_dict' =
                 upload_entity_info_into_oddo(planet_dict, ids_planets_dict,
                                              entity_odoo_id)
           /\ submitted' = [submitted EXCEPT !.planets =
                               [keys |-> planet_dict.keys, vals |-> vals_list,
                                ids |-> entity_odoo_id]]
    /\ events' = Append(events, Event("return", pc))
    /\ Step
    /\ UNCHANGED <<urls_to_request, planet_dict, characters_dict, image_dict,
                   ids_character_dict, norm, queried, exit_status>>
    /\ UNCHANGED <<reconVars, pureVars, fetchVars>>

\* main.py:385
NormalizeCharacters ==
    /\ pc = "normalize_characters"
    /\ \E pages \in PagesOf(json_list, CharacterPages) :
          /\ characters_dict' = get_characters_info(pages)
          /\ norm' = [norm EXCEPT !.characters = get_characters_info(pages)]
    /\ FetchDone
    /\ Step
    /\ UNCHANGED <<events, exit_status>>
    /\ UNCHANGED <<urls_to_request, planet_dict, ids_planets_dict, image_dict,
                   ids_character_dict, odoo, queried, submitted>>
    /\ UNCHANGED <<reconVars, pureVars>>

\* main.py:389
PlanPhotos ==
    /\ pc = "plan_photos"
    /\ urls_to_request' = generate_photo_urls("image_url", Len(characters_dict.keys) + 1)
    /\ Step
    /\ UNCHANGED <<events, exit_status>>
    /\ UNCHANGED <<planet_dict, ids_planets_dict, characters_dict, image_dict,
                   ids_character_dict, odoo, norm, queried, submitted>>
    /\ UNCHANGED <<reconVars, pureVars, fetchVars>>

\* main.py:393
UpgradePhoto ==
    /\ pc = "upgrade_photo"
    /\ \E photo_characters \in BytesOf(json_list) :
          image_dict' = upgrade_photo(photo_characters).image_dict
    /\ FetchDone
    /\ Step
    /\ UNCHANGED <<events, exit_status>>
    /\ UNCHANGED <<urls_to_request, planet_dict, ids_planets_dict, characters_dict,
                   ids_character_dict, odoo, norm, queried, submitted>>
    /\ UNCHANGED <<reconVars, pureVars>>

\* main.py:396
MergePhotos ==
    /\ pc = "merge_photos"
    /\ characters_dict' = upgrage_characters_photo(characters_dict, image_dict)
    /\ Step
    /\ UNCHANGED <<events, exit_status>>
    /\ UNCHANGED <<urls_to_request, planet_dict, ids_planets_dict, image_dict,
                   ids_character_dict, odoo, norm, queried, submitted>>
    /\ UNCHANGED <<reconVars, pureVars, fetchVars>>

\* main.py:401
CheckCharacters ==
    /\ pc = "check_characters"
    /\ CallSent(pc)
    /\ \/ /\ SearchReadFault
          /\ UNCHANGED <<queried, characters_dict, ids_character_dict>>
       \/ /\ LET res == search_read(odoo.characters)
                 checked == check_entity_in_odoo(res, characters_dict)
             IN  /\ queried' = [queried EXCEPT !.characters = res]
                 /\ characters_dict' = checked.entity_dict
                 /\ ids_character_dict' = checked.ids_entity_dict
          /\ events' = Append(events, Event("return", pc))
          /\ Step
          /\ UNCHANGED exit_status
    /\ UNCHANGED <<urls_to_request, planet_dict, ids_planets_dict, image_dict,
                   odoo, norm, submitted>>
    /\ UNCHANGED <<reconVars, pureVars, fetchVars>>

\* main.py:404
RemapCharacters ==
    /\ pc = "remap_characters"
    /\ characters_dict' = upgrade_characters_info(characters_dict, ids_planets_dict)
    /\ Step
    /\ UNCHANGED <<events, exit_status>>
    /\ UNCHANGED <<urls_to_request, planet_dict, ids_planets_dict, image_dict,
                   ids_character_dict, odoo, norm, queried, submitted>>
    /\ UNCHANGED <<reconVars, pureVars, fetchVars>>

\* main.py:407, and the end of the script
UploadCharacters ==
    /\ pc = "upload_characters"
    /\ CallSent(pc)
    /\ LET vals_list == DictValues(characters_dict)
           entity_odoo_id == create_ids(odoo.characters, vals_list)
       IN  /\ odoo' = [odoo EXCEPT !.characters = create(odoo.characters, vals_list)]
           /\ ids_character_dict' =
                 upload_entity_info_into_oddo(characters_dict, ids_character_dict,
                                              entity_odoo_id)
           /\ submitted' = [submitted EXCEPT !.characters =
                               [keys |-> characters_dict.keys, vals |-> vals_list,
                                ids |-> entity_odoo_id]]
    /\ events' = Append(events, Event("return", pc))
    /\ exit_status' = 0
    /\ Step
    /\ UNCHANGED <<urls_to_request, planet_dict, ids_planets_dict, characters_dict,
                   image_dict, norm, queried>>
    /\ UNCHANGED <<reconVars, pureVars, fetchVars>>

RunNext ==
    \/ ParseArgs \/ GetParameters
    \/ PlanPages \/ RequestAll \/ Sends \/ Retries \/ Completes \/ Return
    \/ ExecuteKw \/ NormalizePlanets \/ CheckPlanets \/ UploadPlanets
    \/ NormalizeCharacters \/ PlanPhotos \/ UpgradePhoto \/ MergePhotos
    \/ CheckCharacters \/ RemapCharacters \/ UploadCharacters

SpecRun == RunInit /\ [][RunNext]_vars

----------------------------------------------------------------------------
(* Properties of a full run *)

\* the place of a statement in the run so far, 0 if it has not been executed
Pos(step) ==
    IF \E i \in 1..Len(hist) : hist[i] = step
    THEN CHOOSE i \in 1..Len(hist) : hist[i] = step
    ELSE 0

\* the target id of source planet p once the planets are reconciled and
\* uploaded: the id create returned for it, else the id of the first queried
\* record with its name, else the empty value
FinalPrimaryId(p) ==
    LET call == submitted.planets
        res == queried.planets
    IN  IF \E i \in 1..Len(call.keys) : call.keys[i] = p
        THEN call.ids[CHOOSE i \in 1..Len(call.keys) : call.keys[i] = p]
        ELSE IF DictHas(norm.planets, p)
                /\ \E j \in 1..Len(res) : res[j].name = norm.planets.val[p].name
        THEN res[CHOOSE j \in 1..Len(res) :
                    /\ res[j].name = norm.planets.val[p].name
                    /\ \A h \in 1..(j - 1) : res[h].name # norm.planets.val[p].name].id
        ELSE Blank

SourcePlanet(k) == norm.characters.val[k].planet

\* C2: every character record submitted to create has as planet the final
\* planet id map's value for its source planet id, the empty value when the
\* map does not resolve it; the remap runs after the planet upload has
\* returned, and an unresolved planet does not fail the run.
C2_RemapUsesFinalPrimaryMap ==
    /\ \A i \in 1..Len(submitted.characters.keys) :
          submitted.characters.vals[i].planet =
             FinalPrimaryId(SourcePlanet(submitted.characters.keys[i]))
    /\ Pos("remap_characters") > 0 =>
          /\ Pos("upload_planets") > 0
          /\ Pos("upload_planets") < Pos("remap_characters")
          /\ \A k \in SeqToSet(characters_dict.keys) :
                characters_dict.val[k].planet = FinalPrimaryId(SourcePlanet(k))
    /\ (pc = "failed" /\ Pos("plan_planets") > 0) =>
          \E k \in SeqToSet(characters_dict.keys) :
             /\ "image_1920" \in DOMAIN characters_dict.val[k]
             /\ characters_dict.val[k].image_1920 = PyNone

\* a run that created a planet and submitted a character resolved to it and a
\* character whose source planet the map does not resolve
C2_Witness ==
    /\ pc = "done"
    /\ \E i, j \in 1..Len(submitted.characters.keys) :
          /\ \E h \in 1..Len(submitted.planets.keys) :
                /\ SourcePlanet(submitted.characters.keys[i]) = submitted.planets.keys[h]
                /\ submitted.characters.vals[i].planet = submitted.planets.ids[h]
          /\ SourcePlanet(submitted.characters.keys[j]) # Blank
          /\ submitted.characters.vals[j].planet = Blank

\* C3 as stated: the remap of the characters comes after their normalization
\* and before their reconciliation (the search_read for existing characters).
C3_RemapBeforeReconcile ==
    /\ Pos("remap_characters") > 0 =>
          /\ Pos("normalize_characters") > 0
          /\ Pos("normalize_characters") < Pos("remap_characters")
    /\ Pos("check_characters") > 0 =>
          /\ Pos("remap_characters") > 0
          /\ Pos("remap_characters") < Pos("check_characters")

\* C3 amended: the remap of the characters comes after their normalization
\* and after their reconciliation, and before their create call.
C3_RemapBetweenReconcileAndCreate ==
    /\ Pos("remap_characters") > 0 =>
          /\ Pos("normalize_characters") > 0
          /\ Pos("normalize_characters") < Pos("check_characters")
          /\ Pos("check_characters") < Pos("remap_characters")
    /\ Pos("upload_characters") > 0 =>
          /\ Pos("remap_characters") > 0
          /\ Pos("remap_characters") < Pos("upload_characters")

\* a finished run that matched one character and created another
C3_Witness ==
    /\ pc = "done"
    /\ Pos("remap_characters") > 0
    /\ ids_character_dict.keys # submitted.characters.keys
    /\ submitted.characters.keys # << >>

\* the events of the calls made for the characters: their metadata, their
\* pages, their photos, their reconciliation and their upload
DependentSteps ==
    {"plan_characters", "fetch_characters", "fetch_photos", "check_characters",
     "upload_characters"}

RequestInFlight == \E i \in 1..Len(ftask) : ftask[i] = "sent"

\* C11: fetch batches and store RPCs never overlap: calls and their ends
\* alternate in the run (so at most one batch is in progress, at most one store
\* RPC is outstanding, and neither starts inside the other), requests of a
\* batch are in flight only inside that batch's call and never while a
\* search_read or create is outstanding, and the planets' create call has
\* returned before the first call made for the characters.
C11_PhasesNeverOverlap ==
    /\ \A i \in 1..Len(events) :
          /\ i % 2 = 1 => events[i].ev = "call"
          /\ i % 2 = 0 =>
                /\ events[i].ev \in {"return", "fault", "refused"}
                /\ events[i].step = events[i - 1].step
    /\ (fstate = "running" \/ RequestInFlight) =>
          /\ Outstanding
          /\ events[Len(events)].method = "request_all"
    /\ (Outstanding /\ events[Len(events)].model # "") =>
          /\ fstate = "off"
          /\ ~RequestInFlight
    /\ \A i \in 1..Len(events) :
          events[i].step \in DependentSteps =>
             \E j \in 1..(i - 1) : events[j] = Event("return", "upload_planets")

\* a finished run: the login, two metadata requests, three batches, four
\* store RPCs, with records created in both models
C11_Witness ==
    /\ pc = "done"
    /\ Len(events) = 20
    /\ submitted.planets.keys # << >>
    /\ submitted.characters.keys # << >>

CallsOf(step) == {i \in 1..Len(events) : events[i] = Event("call", step)}

\* C12: when search_read raises a fault the run ends there with a non-zero
\* exit status: the fault is the last event of the run, the query was issued
\* once, no create call was issued for that model, and no batch is running.
C12_FaultEndsRun ==
    \A i \in 1..Len(events) :
        (events[i].ev = "fault" /\ events[i].method = "search_read") =>
            /\ i = Len(events)
            /\ pc = "exit"
            /\ exit_status \notin {0, NotExited}
            /\ Cardinality(CallsOf(events[i].step)) = 1
            /\ \A j \in 1..Len(events) :
                  ~(events[j].method = "create" /\ events[j].model = events[i].model)
            /\ submitted[events[i].model] = NoCall
            /\ fstate = "off"
            /\ ~RequestInFlight

\* the characters' query was rejected after planets had been created
C12_Witness ==
    /\ pc = "exit"
    /\ events # << >>
    /\ events[Len(events)] = Event("fault", "check_characters")
    /\ submitted.planets.keys # << >>
    /\ characters_dict.keys # << >>

IsPrefix(s, t) == Len(s) <= Len(t) /\ SubSeq(t, 1, Len(s)) = s

\* C13: a run only reads and creates: every call on a model of the store
\* is a search_read or a create (the one other call to the server is the
\* login of get_parameters, which names no model and comes first), and each
\* step of the run leaves every record that was in the store in its place
\* with the same id and field values, also the records a candidate was
\* matched to by name.
C13_StoredRecordsUntouched ==
    /\ [](\A i \in 1..Len(events) :
            events[i].server = "odoo" =>
                \/ events[i].method \in {"search_read", "create"} /\ events[i].model # ""
                \/ events[i].method = "authenticate" /\ events[i].model = "" /\ i <= 2)
    /\ [][/\ IsPrefix(odoo.planets, odoo'.planets)
          /\ IsPrefix(odoo.characters, odoo'.characters)]_vars

\* a finished run that matched a planet and a character to stored records
\* and created other records beside them
C13_Witness ==
    /\ pc = "done"
    /\ \E k \in SeqToSet(ids_planets_dict.keys) : ids_planets_dict.val[k] = StoredPlanet.id
    /\ \E k \in SeqToSet(ids_character_dict.keys) :
          ids_character_dict.val[k] = StoredCharacter.id
    /\ odoo.planets[1] = StoredPlanet
    /\ odoo.characters[1] = StoredCharacter
    /\ Len(odoo.planets) > 1
    /\ Len(odoo.characters) > 1

\* C18: the image indices fetched are 1..n with n the number of normalized
\* characters plus one, and every character handed to upgrage_characters_photo
\* has its source id in 1..n and an entry in the image map.
C18_PhotoIndicesCoverCharacters ==
    LET n == Len(norm.characters.keys) + 1
    IN  /\ pc = "fetch_photos" =>
              urls_to_request = [i \in 1..n |-> [base |-> "image_url", jpg |-> i]]
        /\ pc = "merge_photos" =>
              /\ image_dict.keys = [i \in 1..n |-> i]
              /\ \A k \in SeqToSet(characters_dict.keys) :
                    k \in 1..n /\ DictHas(image_dict, k)

----------------------------------------------------------------------------
(* Properties of request_all *)

\* the list returned has one entry per input url and the entry at position i
\* is what the coroutine of the i-th url returned, whatever the order in
\* which the coroutines finished
PayloadsInUrlOrder ==
    /\ Len(json_list) = Len(furls)
    /\ \A i \in 1..Len(furls) :
          /\ json_list[i].url = furls[i]
          /\ \E k \in 1..Len(fres) : fres[k] = <<i, json_list[i]>>
    /\ \A k \in 1..Len(fres) : json_list[fres[k][1]] = fres[k][2]

\* C6: for any list of urls and any interleaving of completions and retries,
\* request_all returns exactly one payload per input url, and the payload at
\* position i is the eventually-successful (2xx) response of the i-th url.
C6_PayloadIsSuccessfulResponseOfUrl ==
    fstate = "returned" =>
        /\ PayloadsInUrlOrder
        /\ \A i \in 1..Len(furls) :
              \E k \in 1..Len(fres) :
                  /\ fres[k][1] = i
                  /\ fres[k][2].status \in 200..299
                  /\ json_list[i] = fres[k][2]

\* C7: every per-request failure (transport error, non-2xx status, payload
\* decode error) is retried, for JSON and for raw-bytes fetches alike: the
\* failed attempt is logged and never delivers a payload to the caller.
C7_FailedAttemptNeverDelivered ==
    \A k \in 1..Len(fres) : fres[k][2].status \in 200..299

\* C8: request_all returns only after every url of the batch has succeeded;
\* with a url that fails on every attempt the call never returns.
C8_ReturnsOnlyWhenAllSucceeded ==
    fstate = "returned" =>
        /\ fbroken = {}
        /\ \A i \in 1..Len(json_list) : json_list[i].status \in 200..299

====
